---- MODULE Spec2Model ----
(***************************************************************************)
(* The rate-limited invocation governor of miovo: debounce()               *)
(* (src/src/debounce.ts) and throttle() (src/src/hash.test.ts:196-301),    *)
(* driven by wrapper calls, cancel(), flush() and the host runtime's       *)
(* timers under a discrete millisecond clock.                              *)
(*                                                                         *)
(* The closure variables of one governor are the fields of the record      *)
(* `gov`; the handlers are operators from a governor record (and the time  *)
(* read from Date.now()) to the governor record after the handler.  The    *)
(* host runtime's table of scheduled callbacks is the field `timers`.      *)
(***************************************************************************)
EXTENDS Integers, Sequences, FiniteSets, TLC

VARIABLES
    mode,       \* "debounce" | "throttle": which factory built the wrapper
    wait,       \* the wait argument
    leading,    \* options.leading
    trailing,   \* options.trailing
    maxWait,    \* options.maxWait, Null when undefined (debounce only)
    now,        \* Date.now()
    gov,        \* closure state of the wrapper + host timers + call record of func
    nCalls,     \* history: number of wrapper calls made so far
    lastOp,     \* history: the operation that produced this state
    wasIdle,    \* history: the governor was idle when lastOp started
    nCtl,       \* history: number of cancel() and flush() calls made so far
    burst,      \* history: every call so far came less than `wait` after the previous one
    firstCallAt,\* history: time of the first wrapper call, Null before it
    calledNow,  \* a wrapper call was made at the current clock value
    timerFirst, \* history: no call was made while a timer was due
    pace,       \* steady pressure: clock values from one call to the next
    callLog,    \* history: for every wrapper call, its time and whether it opened a burst
    rt          \* one retry(fn, options) call: its options, locals, position and record

vars == <<mode, wait, leading, trailing, maxWait, now, gov, nCalls, lastOp,
          wasIdle, nCtl, burst, firstCallAt, calledNow, timerFirst, pace, callLog, rt>>

cfgVars == <<mode, wait, leading, trailing, maxWait, pace>>

(***************************************************************************)
(* Bounds of the exploration.                                              *)
(***************************************************************************)
MaxTime == 6
MaxCalls == 3
MaxCtl == 2
MaxSteadyTime == 12
Waits == {2}
MaxWaits == {1, 3}
ThrowArgs == {1, 2}
SteadyWaits == {2, 4}
SteadyMaxWaits == {3, 4, 5}

\* null / undefined of the closure variables (handles, arguments and times are >= 0)
Null == -1

Min(a, b) == IF a <= b THEN a ELSE b

Last(s) == s[Len(s)]

(***************************************************************************)
(* Host runtime: setTimeout / clearTimeout.  A scheduled callback is       *)
(* [id, kind, due, old]; kind is "timer" for timerExpired and "max" for    *)
(* maxTimerExpired.  `old` is a history flag: the callback was scheduled   *)
(* before the last cancel().  A non-positive delay is due at once.         *)
(***************************************************************************)
setTimeout(g, kind, delay, time) ==
    [g EXCEPT !.timers = @ \cup {[id |-> g.nextId, kind |-> kind,
                                  due |-> time + (IF delay < 0 THEN 0 ELSE delay),
                                  old |-> FALSE]},
              !.nextId = @ + 1]

clearTimeout(g, handle) ==
    [g EXCEPT !.timers = {tm \in @ : tm.id # handle}]

\* the wrapped function: returns a value that identifies the arguments it ran with
func(thisArg, args) == args

\* what the caller of an entry point gets when func threw: the exception
Thrown == -2

\* func throws when it is run with the arguments g.throwOn (Null: it never throws)
Throws(g, args) == g.throwOn # Null /\ args = g.throwOn

(***************************************************************************)
(* debounce (src/src/debounce.ts)                                          *)
(***************************************************************************)
\* mutant: func is applied before the bookkeeping, which a throw then skips
invokeFunc_applyFirst(g, time) ==
    IF Throws(g, g.lastArgs)
    THEN [g EXCEPT !.ret = Thrown,
                   !.invocations = Append(@, [t |-> time, args |-> g.lastArgs,
                                              thisArg |-> g.lastThis,
                                              by |-> g.cause.by, old |-> g.cause.old,
                                              stale |-> g.lastArgs <= g.mark,
                                              latest |-> g.lastArgs = g.seen,
                                              threw |-> TRUE])]
    ELSE [g EXCEPT !.lastArgs = Null,
                   !.lastThis = Null,
                   !.lastInvokeTime = time,
                   !.result = func(g.lastThis, g.lastArgs),
                   !.ret = func(g.lastThis, g.lastArgs),
                   !.invocations = Append(@, [t |-> time, args |-> g.lastArgs,
                                              thisArg |-> g.lastThis,
                                              by |-> g.cause.by, old |-> g.cause.old,
                                              stale |-> g.lastArgs <= g.mark,
                                              latest |-> g.lastArgs = g.seen,
                                              threw |-> FALSE])]

invokeFunc(g, time) ==
    [g EXCEPT !.lastArgs = Null,
              !.lastThis = Null,
              !.lastInvokeTime = time,
              !.result = IF Throws(g, g.lastArgs) THEN @ ELSE func(g.lastThis, g.lastArgs),
              !.ret = IF Throws(g, g.lastArgs) THEN Thrown ELSE func(g.lastThis, g.lastArgs),
              !.invocations = Append(@, [t |-> time, args |-> g.lastArgs,
                                         thisArg |-> g.lastThis,
                                         by |-> g.cause.by, old |-> g.cause.old,
                                         stale |-> g.lastArgs <= g.mark,
                                         latest |-> g.lastArgs = g.seen,
                                         threw |-> Throws(g, g.lastArgs)])]

shouldInvoke(g, time) ==
    LET timeSinceLastCall == time - (IF g.lastCallTime = Null THEN 0 ELSE g.lastCallTime)
        timeSinceLastInvoke == time - g.lastInvokeTime
    IN  \/ g.lastCallTime = Null
        \/ timeSinceLastCall >= wait
        \/ timeSinceLastCall < 0
        \/ (maxWait # Null /\ timeSinceLastInvoke >= maxWait)

\* mutant: lastInvokeTime is recorded only when the leading edge runs func
leadingEdge_timeIfLeading(g, time) ==
    LET g2 == [setTimeout(g, "timer", wait, time) EXCEPT !.timeout = g.nextId]
        g3 == IF maxWait # Null
              THEN [setTimeout(g2, "max", maxWait, time) EXCEPT !.maxTimeout = g2.nextId]
              ELSE g2
    IN  IF leading THEN invokeFunc(g3, time) ELSE [g3 EXCEPT !.ret = g3.result]

\* mutant: a call that opens the leading edge without running func returns undefined
leadingEdge_noCache(g, time) ==
    LET g1 == [g EXCEPT !.lastInvokeTime = time]
        g2 == [setTimeout(g1, "timer", wait, time) EXCEPT !.timeout = g1.nextId]
        g3 == IF maxWait # Null
              THEN [setTimeout(g2, "max", maxWait, time) EXCEPT !.maxTimeout = g2.nextId]
              ELSE g2
    IN  IF leading THEN invokeFunc(g3, time) ELSE [g3 EXCEPT !.ret = Null]

leadingEdge(g, time) ==
    LET g1 == [g EXCEPT !.lastInvokeTime = time]
        g2 == [setTimeout(g1, "timer", wait, time) EXCEPT !.timeout = g1.nextId]
        g3 == IF maxWait # Null
              THEN [setTimeout(g2, "max", maxWait, time) EXCEPT !.maxTimeout = g2.nextId]
              ELSE g2
    IN  IF leading THEN invokeFunc(g3, time) ELSE [g3 EXCEPT !.ret = g3.result]

remainingWait(g, time) ==
    LET timeSinceLastCall == time - (IF g.lastCallTime = Null THEN 0 ELSE g.lastCallTime)
        timeSinceLastInvoke == time - g.lastInvokeTime
        timeWaiting == wait - timeSinceLastCall
    IN  IF maxWait # Null
        THEN Min(timeWaiting, maxWait - timeSinceLastInvoke)
        ELSE timeWaiting

\* mutant: the trailing run is decided by the leading flag
trailingEdge_wrongFlag(g, time) ==
    LET g1 == [g EXCEPT !.timeout = Null]
        g2 == IF g1.maxTimeout # Null
              THEN [clearTimeout(g1, g1.maxTimeout) EXCEPT !.maxTimeout = Null]
              ELSE g1
    IN  IF leading /\ g2.lastArgs # Null
        THEN invokeFunc(g2, time)
        ELSE [g2 EXCEPT !.lastArgs = Null, !.lastThis = Null, !.ret = g2.result]

trailingEdge(g, time) ==
    LET g1 == [g EXCEPT !.timeout = Null]
        g2 == IF g1.maxTimeout # Null
              THEN [clearTimeout(g1, g1.maxTimeout) EXCEPT !.maxTimeout = Null]
              ELSE g1
    IN  IF trailing /\ g2.lastArgs # Null
        THEN invokeFunc(g2, time)
        ELSE [g2 EXCEPT !.lastArgs = Null, !.lastThis = Null, !.ret = g2.result]

\* mutant: the timer runs the trailing edge without re-checking the last call time
timerExpired_noRecheck(g, time) == trailingEdge(g, time)

timerExpired(g, time) ==
    IF shouldInvoke(g, time)
    THEN trailingEdge(g, time)
    ELSE [setTimeout(g, "timer", remainingWait(g, time), time) EXCEPT !.timeout = g.nextId]

maxTimerExpired(g, time) ==
    IF g.lastArgs # Null /\ trailing
    THEN trailingEdge(g, time)
    ELSE g

\* mutant: lastInvokeTime is not reset
cancel_keepInvokeTime(g) ==
    LET g1 == IF g.timeout # Null THEN clearTimeout(g, g.timeout) ELSE g
        g2 == IF g1.maxTimeout # Null THEN clearTimeout(g1, g1.maxTimeout) ELSE g1
    IN  [g2 EXCEPT !.lastArgs = Null,
                   !.lastThis = Null,
                   !.lastCallTime = Null,
                   !.timeout = Null,
                   !.maxTimeout = Null]

\* mutant: nothing is reset unless a timer is scheduled
cancel_onlyIfPending(g) ==
    IF g.timeout = Null /\ g.maxTimeout = Null THEN g
    ELSE LET g1 == IF g.timeout # Null THEN clearTimeout(g, g.timeout) ELSE g
             g2 == IF g1.maxTimeout # Null THEN clearTimeout(g1, g1.maxTimeout) ELSE g1
         IN  [g2 EXCEPT !.lastInvokeTime = 0,
                        !.lastArgs = Null,
                        !.lastThis = Null,
                        !.lastCallTime = Null,
                        !.timeout = Null,
                        !.maxTimeout = Null]

cancel(g) ==
    LET g1 == IF g.timeout # Null THEN clearTimeout(g, g.timeout) ELSE g
        g2 == IF g1.maxTimeout # Null THEN clearTimeout(g1, g1.maxTimeout) ELSE g1
    IN  [g2 EXCEPT !.lastInvokeTime = 0,
                   !.lastArgs = Null,
                   !.lastThis = Null,
                   !.lastCallTime = Null,
                   !.timeout = Null,
                   !.maxTimeout = Null]

\* mutant: flush() resets lastInvokeTime as cancel() does
flush_resetsInvokeTime(g, time) ==
    IF g.timeout = Null /\ g.maxTimeout = Null
    THEN [g EXCEPT !.ret = g.result, !.lastInvokeTime = 0]
    ELSE [trailingEdge(g, time) EXCEPT !.lastInvokeTime = 0]

\* mutant: the flushed arguments are not consumed
flush_keepArgs(g, time) ==
    IF g.timeout = Null /\ g.maxTimeout = Null
    THEN [g EXCEPT !.ret = g.result]
    ELSE [trailingEdge(g, time) EXCEPT !.lastArgs = g.lastArgs, !.lastThis = g.lastThis]

\* mutant: nothing is returned when no timer is scheduled
flush_undefinedWhenIdle(g, time) ==
    IF g.timeout = Null /\ g.maxTimeout = Null
    THEN [g EXCEPT !.ret = Null]
    ELSE trailingEdge(g, time)

flush(g, time) ==
    IF g.timeout = Null /\ g.maxTimeout = Null
    THEN [g EXCEPT !.ret = g.result]
    ELSE trailingEdge(g, time)

pending(g) == g.timeout # Null

debounced(g, time, thisArg, args) ==
    LET isInvoking == shouldInvoke(g, time)
        g1 == [g EXCEPT !.lastArgs = args, !.lastThis = thisArg, !.lastCallTime = time]
    IN  IF isInvoking /\ g1.timeout = Null
        THEN leadingEdge(g1, g1.lastCallTime)
        ELSE IF isInvoking /\ maxWait # Null
        THEN invokeFunc([setTimeout(g1, "timer", wait, time) EXCEPT !.timeout = g1.nextId],
                        g1.lastCallTime)
        ELSE IF g1.timeout = Null
        THEN [setTimeout(g1, "timer", wait, time) EXCEPT !.timeout = g1.nextId,
                                                          !.ret = g1.result]
        ELSE [g1 EXCEPT !.ret = g1.result]

(***************************************************************************)
(* throttle (src/src/hash.test.ts:196-301)                                 *)
(***************************************************************************)
\* mutant: the time of the run is not recorded
invokeFuncT_noTime(g, time) ==
    [g EXCEPT !.lastArgs = Null,
              !.lastThis = Null,
              !.result = IF Throws(g, g.lastArgs) THEN @ ELSE func(g.lastThis, g.lastArgs),
              !.ret = IF Throws(g, g.lastArgs) THEN Thrown ELSE func(g.lastThis, g.lastArgs),
              !.invocations = Append(@, [t |-> time, args |-> g.lastArgs,
                                         thisArg |-> g.lastThis,
                                         by |-> g.cause.by, old |-> g.cause.old,
                                         stale |-> g.lastArgs <= g.mark,
                                         latest |-> g.lastArgs = g.seen,
                                         threw |-> Throws(g, g.lastArgs)])]

invokeFuncT(g, time) ==
    [g EXCEPT !.lastArgs = Null,
              !.lastThis = Null,
              !.lastInvokeTime = time,
              !.result = IF Throws(g, g.lastArgs) THEN @ ELSE func(g.lastThis, g.lastArgs),
              !.ret = IF Throws(g, g.lastArgs) THEN Thrown ELSE func(g.lastThis, g.lastArgs),
              !.invocations = Append(@, [t |-> time, args |-> g.lastArgs,
                                         thisArg |-> g.lastThis,
                                         by |-> g.cause.by, old |-> g.cause.old,
                                         stale |-> g.lastArgs <= g.mark,
                                         latest |-> g.lastArgs = g.seen,
                                         threw |-> Throws(g, g.lastArgs)])]

shouldInvokeT(g, time) ==
    LET timeSinceLastCall == time - (IF g.lastCallTime = Null THEN 0 ELSE g.lastCallTime)
        timeSinceLastInvoke == time - g.lastInvokeTime
    IN  \/ g.lastCallTime = Null
        \/ timeSinceLastCall >= wait
        \/ timeSinceLastCall < 0
        \/ timeSinceLastInvoke >= wait

\* leadingEdge whose timer is one millisecond short of wait
leadingEdgeT_shortTimer(g, time) ==
    LET g1 == [g EXCEPT !.lastInvokeTime = time]
        g2 == [setTimeout(g1, "timer", wait - 1, time) EXCEPT !.timeout = g1.nextId]
    IN  IF leading THEN invokeFuncT(g2, time) ELSE [g2 EXCEPT !.ret = g2.result]

leadingEdgeT(g, time) ==
    LET g1 == [g EXCEPT !.lastInvokeTime = time]
        g2 == [setTimeout(g1, "timer", wait, time) EXCEPT !.timeout = g1.nextId]
    IN  IF leading THEN invokeFuncT(g2, time) ELSE [g2 EXCEPT !.ret = g2.result]

remainingWaitT(g, time) ==
    LET timeSinceLastCall == time - (IF g.lastCallTime = Null THEN 0 ELSE g.lastCallTime)
        timeSinceLastInvoke == time - g.lastInvokeTime
        timeWaiting == wait - timeSinceLastCall
    IN  Min(timeWaiting, wait - timeSinceLastInvoke)

trailingEdgeT(g, time) ==
    LET g1 == [g EXCEPT !.timeout = Null]
    IN  IF trailing /\ g1.lastArgs # Null
        THEN invokeFuncT(g1, time)
        ELSE [g1 EXCEPT !.lastArgs = Null, !.lastThis = Null, !.ret = g1.result]

timerExpiredT(g, time) ==
    IF shouldInvokeT(g, time)
    THEN trailingEdgeT(g, time)
    ELSE [setTimeout(g, "timer", remainingWaitT(g, time), time) EXCEPT !.timeout = g.nextId]

cancelT(g) ==
    LET g1 == IF g.timeout # Null THEN clearTimeout(g, g.timeout) ELSE g
    IN  [g1 EXCEPT !.lastInvokeTime = 0,
                   !.lastArgs = Null,
                   !.lastThis = Null,
                   !.lastCallTime = Null,
                   !.timeout = Null]

flushT(g, time) ==
    IF g.timeout = Null
    THEN [g EXCEPT !.ret = g.result]
    ELSE trailingEdgeT(g, time)

\* mutant: a call made while arguments are pending does not replace them
throttled_keepArgs(g, time, thisArg, args) ==
    LET isInvoking == shouldInvokeT(g, time)
        g1 == IF g.lastArgs = Null
              THEN [g EXCEPT !.lastArgs = args, !.lastThis = thisArg, !.lastCallTime = time]
              ELSE [g EXCEPT !.lastCallTime = time]
    IN  IF isInvoking /\ g1.timeout = Null
        THEN leadingEdgeT(g1, g1.lastCallTime)
        ELSE IF g1.timeout = Null
        THEN [setTimeout(g1, "timer", wait, time) EXCEPT !.timeout = g1.nextId,
                                                          !.ret = g1.result]
        ELSE [g1 EXCEPT !.ret = g1.result]

throttled(g, time, thisArg, args) ==
    LET isInvoking == shouldInvokeT(g, time)
        g1 == [g EXCEPT !.lastArgs = args, !.lastThis = thisArg, !.lastCallTime = time]
    IN  IF isInvoking /\ g1.timeout = Null
        THEN leadingEdgeT(g1, g1.lastCallTime)
        ELSE IF g1.timeout = Null
        THEN [setTimeout(g1, "timer", wait, time) EXCEPT !.timeout = g1.nextId,
                                                          !.ret = g1.result]
        ELSE [g1 EXCEPT !.ret = g1.result]

(***************************************************************************)
(* The wrapper as its callers and the host runtime see it.                 *)
(***************************************************************************)
\* closure state right after debounce(...) / throttle(...) returned; the host
\* has no callback of this wrapper, func has not run.  History fields:
\* invocations (the runs of func), ret (what the last call or flush returned),
\* cause (which entry point is running), seen (arguments of the most recent
\* call), mark (number of calls made before the last cancel() that dropped
\* pending arguments), throwOn (the arguments func throws on).
NewGov ==
    [timeout |-> Null, maxTimeout |-> Null, lastArgs |-> Null, lastThis |-> Null,
     result |-> Null, lastCallTime |-> Null, lastInvokeTime |-> 0,
     timers |-> {}, nextId |-> 0,
     invocations |-> << >>, ret |-> Null, cause |-> [by |-> "init", old |-> FALSE],
     seen |-> 0, mark |-> 0, throwOn |-> Null]

\* the closure variables proper (without host timers and history)
Fields(g) == <<g.timeout, g.maxTimeout, g.lastArgs, g.lastThis, g.result,
               g.lastCallTime, g.lastInvokeTime>>

From(g, by, old) == [g EXCEPT !.cause = [by |-> by, old |-> old]]

wrapperCall(g, time, thisArg, args) ==
    LET g1 == [From(g, "call", FALSE) EXCEPT !.seen = args]
    IN  IF mode = "debounce"
        THEN debounced(g1, time, thisArg, args)
        ELSE throttled(g1, time, thisArg, args)

wrapperCancel(g, calls) ==
    LET g1 == IF mode = "debounce" THEN cancel(From(g, "cancel", FALSE))
                                   ELSE cancelT(From(g, "cancel", FALSE))
    IN  IF g.lastArgs = Null THEN g1
        ELSE [g1 EXCEPT !.timers = {[tm EXCEPT !.old = TRUE] : tm \in @},
                        !.mark = calls]

wrapperFlush(g, time) ==
    IF mode = "debounce" THEN flush(From(g, "flush", FALSE), time)
                         ELSE flushT(From(g, "flush", FALSE), time)

\* the callback the host runs next: the earliest due, first scheduled first
IsNext(g, tm) ==
    /\ tm \in g.timers
    /\ \A o \in g.timers : tm.due < o.due \/ (tm.due = o.due /\ tm.id <= o.id)

runTimer(g, tm, time) ==
    LET g1 == From([g EXCEPT !.timers = @ \ {tm}], tm.kind, tm.old)
    IN  IF tm.kind = "max" THEN maxTimerExpired(g1, time)
        ELSE IF mode = "debounce" THEN timerExpired(g1, time)
        ELSE timerExpiredT(g1, time)

Due(g, time) == \E tm \in g.timers : tm.due <= time

Idle(g) == g.timeout = Null /\ g.maxTimeout = Null /\ g.lastArgs = Null

\* the host runs every scheduled callback in turn, the clock jumping to each due time
RECURSIVE Drain(_, _)
Drain(g, time) ==
    IF g.timers = {} THEN g
    ELSE LET tm == CHOOSE x \in g.timers : IsNext(g, x)
             t == IF tm.due > time THEN tm.due ELSE time
         IN  Drain(runTimer(g, tm, t), t)

\* successive calls alternate between two receivers
Receiver(args) == 1 + (args % 2)

(***************************************************************************)
(* retry (src/src/retry.ts:81-104).  The record of one retry(fn, options)  *)
(* call: the options, the locals attempt and lastError, the position pc    *)
(* ("fn": awaiting fn(), "wait": awaiting wait(currentDelay), "resolved",  *)
(* "rejected": the returned promise has settled) and the settled value or  *)
(* error.  History fields: calls (number of calls of fn), waits (the       *)
(* durations passed to wait, in order), refused (shouldRetry returned      *)
(* false), asked (the arguments of the calls of shouldRetry, in order).   *)
(* The k-th call of fn rejects with error k or resolves with value k.      *)
(***************************************************************************)
MaxAttempts == 4
Delays == {1, 3}
Backoffs == {1, 2, 3}
Infinity == 1000000
MaxDelays == {4, Infinity}

RECURSIVE Pow(_, _)
Pow(b, e) == IF e <= 0 THEN 1 ELSE b * Pow(b, e - 1)

\* no retry call has been made
NoRetry ==
    [attempts |-> 0, delay |-> 0, backoff |-> 1, maxDelay |-> Infinity,
     attempt |-> 0, lastError |-> Null, pc |-> "none", settled |-> Null,
     calls |-> 0, waits |-> << >>, refused |-> FALSE, asked |-> << >>]

\* the for statement's test: call fn for the next attempt, or leave the loop
\* and throw lastError
loopTest(r) ==
    IF r.attempt < r.attempts
    THEN [r EXCEPT !.pc = "fn", !.calls = @ + 1]
    ELSE [r EXCEPT !.pc = "rejected", !.settled = r.lastError]

\* retry(fn, options) up to its first await
retry(n, d, b, m) ==
    loopTest([NoRetry EXCEPT !.attempts = n, !.delay = d, !.backoff = b, !.maxDelay = m])

\* mutant: no attempt is taken to be the last one
isLastAttempt_never(r) == FALSE

isLastAttempt(r) == r.attempt = r.attempts - 1

\* mutant: the delay is not capped
currentDelay_noCap(r) == r.delay * Pow(r.backoff, r.attempt)

currentDelay(r) == Min(r.delay * Pow(r.backoff, r.attempt), r.maxDelay)

\* mutant: shouldRetry gets the loop variable as the attempt number
catch_zeroBased(r, error, again) ==
    LET r0 == [r EXCEPT !.lastError = error]
        r1 == IF isLastAttempt(r0) THEN r0
              ELSE [r0 EXCEPT !.asked = Append(@, [error |-> error, attempt |-> r0.attempt])]
    IN  IF isLastAttempt(r1) \/ ~again
        THEN [r1 EXCEPT !.pc = "rejected", !.settled = error, !.refused = @ \/ ~isLastAttempt(r1)]
        ELSE [r1 EXCEPT !.pc = "wait", !.waits = Append(@, currentDelay(r1))]

\* fn() rejected with `error`: the catch block, with shouldRetry's answer;
\* shouldRetry is not called when isLastAttempt is true
catch(r, error, again) ==
    LET r0 == [r EXCEPT !.lastError = error]
        r1 == IF isLastAttempt(r0) THEN r0
              ELSE [r0 EXCEPT !.asked = Append(@, [error |-> error, attempt |-> r0.attempt + 1])]
    IN  IF isLastAttempt(r1) \/ ~again
        THEN [r1 EXCEPT !.pc = "rejected", !.settled = error, !.refused = @ \/ ~isLastAttempt(r1)]
        ELSE [r1 EXCEPT !.pc = "wait", !.waits = Append(@, currentDelay(r1))]

(***************************************************************************)
(* Initial states and steps.                                               *)
(***************************************************************************)
Start ==
    /\ mode \in {"debounce", "throttle"}
    /\ leading \in BOOLEAN
    /\ trailing \in BOOLEAN
    /\ now = 0
    /\ gov = NewGov
    /\ nCalls = 0
    /\ lastOp = "init"
    /\ wasIdle = FALSE
    /\ nCtl = 0
    /\ burst = TRUE
    /\ firstCallAt = Null
    /\ calledNow = FALSE
    /\ timerFirst = TRUE
    /\ callLog = << >>
    /\ rt = NoRetry

Init ==
    /\ Start
    /\ wait \in Waits
    /\ maxWait \in IF mode = "debounce" THEN {Null} \cup MaxWaits ELSE {Null}
    /\ pace = 1

\* a call opens a burst when it is the first call or comes at least `wait`
\* after the previous call
OpensBurst(log, time) == log = << >> \/ time - Last(log).t >= wait

\* a wrapper call with fresh arguments
DoCall ==
    /\ gov' = wrapperCall(gov, now, Receiver(nCalls + 1), nCalls + 1)
    /\ nCalls' = nCalls + 1
    /\ lastOp' = "call"
    /\ wasIdle' = FALSE
    /\ burst' = (burst /\ (gov.lastCallTime = Null \/ now - gov.lastCallTime < wait))
    /\ firstCallAt' = IF firstCallAt = Null THEN now ELSE firstCallAt
    /\ calledNow' = TRUE
    /\ timerFirst' = (timerFirst /\ ~Due(gov, now))
    /\ callLog' = Append(callLog, [t |-> now, opens |-> OpensBurst(callLog, now)])
    /\ UNCHANGED <<cfgVars, rt, now, nCtl>>

Call ==
    /\ nCalls < MaxCalls
    /\ DoCall

Cancel ==
    /\ nCtl < MaxCtl
    /\ gov' = wrapperCancel(gov, nCalls)
    /\ lastOp' = "cancel"
    /\ wasIdle' = Idle(gov)
    /\ nCtl' = nCtl + 1
    /\ UNCHANGED <<cfgVars, rt, now, nCalls, burst, firstCallAt, calledNow, timerFirst, callLog>>

Flush ==
    /\ nCtl < MaxCtl
    /\ gov' = wrapperFlush(gov, now)
    /\ lastOp' = "flush"
    /\ wasIdle' = Idle(gov)
    /\ nCtl' = nCtl + 1
    /\ UNCHANGED <<cfgVars, rt, now, nCalls, burst, firstCallAt, calledNow, timerFirst, callLog>>

\* the host runs the next due callback
Fire ==
    /\ \E tm \in gov.timers :
         /\ IsNext(gov, tm)
         /\ tm.due <= now
         /\ gov' = runTimer(gov, tm, now)
         /\ lastOp' = tm.kind
    /\ wasIdle' = FALSE
    /\ UNCHANGED <<cfgVars, rt, now, nCalls, nCtl, burst, firstCallAt, calledNow, timerFirst, callLog>>

\* the clock advances one millisecond once every due callback has run
DoTick ==
    /\ ~Due(gov, now)
    /\ now' = now + 1
    /\ lastOp' = "tick"
    /\ wasIdle' = FALSE
    /\ calledNow' = FALSE
    /\ UNCHANGED <<cfgVars, rt, gov, nCalls, nCtl, burst, firstCallAt, timerFirst, callLog>>

Tick ==
    /\ now < MaxTime
    /\ DoTick

Next == Call \/ Cancel \/ Flush \/ Fire \/ Tick

Spec == Init /\ [][Next]_vars

(***************************************************************************)
(* The same wrapper around a func that throws on one of its arguments.     *)
(***************************************************************************)
ThrowInit ==
    /\ mode \in {"debounce", "throttle"}
    /\ leading \in BOOLEAN
    /\ trailing \in BOOLEAN
    /\ wait \in Waits
    /\ maxWait \in IF mode = "debounce" THEN {Null} \cup MaxWaits ELSE {Null}
    /\ pace = 1
    /\ now = 0
    /\ gov \in {[NewGov EXCEPT !.throwOn = a] : a \in ThrowArgs}
    /\ nCalls = 0
    /\ lastOp = "init"
    /\ wasIdle = FALSE
    /\ nCtl = 0
    /\ burst = TRUE
    /\ firstCallAt = Null
    /\ calledNow = FALSE
    /\ timerFirst = TRUE
    /\ callLog = << >>
    /\ rt = NoRetry

ThrowSpec == ThrowInit /\ [][Next]_vars

(***************************************************************************)
(* A func that calls the wrapper again while it runs.  func.apply is the   *)
(* last thing invokeFunc does before it assigns result, and invokeFunc is  *)
(* the last thing its callers do: inside func the closure variables are    *)
(* those the call ends with, except that result still has its old value.   *)
(* The nested call is made at the same clock value.  The recursion of the  *)
(* model is cut at MaxDepth nested calls.                                  *)
(***************************************************************************)
MaxDepth == 2
ReWaits == {0, 2}

\* the wrapper call with arguments k, by a func that re-enters the wrapper
\* (up to depth d) whenever it is run from inside a wrapper call
RECURSIVE reentrantCall(_, _, _, _)
reentrantCall(g, time, k, d) ==
    LET c == wrapperCall(g, time, Receiver(k), k)
    IN  IF Len(c.invocations) = Len(g.invocations) \/ d = 0 THEN c
        ELSE LET inside == [c EXCEPT !.result = g.result]
                 nested == reentrantCall(inside, time, k + 1, d - 1)
             IN  [nested EXCEPT !.result = func(Receiver(k), k),
                                !.ret = func(Receiver(k), k)]

ReInit ==
    /\ Start
    /\ wait \in ReWaits
    /\ maxWait \in IF mode = "debounce" THEN {Null} \cup MaxWaits ELSE {Null}
    /\ pace = 1

ReentrantCall ==
    /\ nCalls < MaxCalls
    /\ gov' = reentrantCall(gov, now, nCalls + 1, MaxDepth)
    /\ nCalls' = gov'.seen
    /\ lastOp' = "reentrant"
    /\ wasIdle' = FALSE
    /\ burst' = (burst /\ (gov.lastCallTime = Null \/ now - gov.lastCallTime < wait)
                      /\ (gov'.seen = nCalls + 1 \/ wait > 0))
    /\ firstCallAt' = IF firstCallAt = Null THEN now ELSE firstCallAt
    /\ calledNow' = TRUE
    /\ timerFirst' = (timerFirst /\ ~Due(gov, now))
    /\ callLog' = callLog \o [i \in 1..(gov'.seen - nCalls) |->
                      [t |-> now,
                       opens |-> IF i = 1 THEN OpensBurst(callLog, now) ELSE wait <= 0]]
    /\ UNCHANGED <<cfgVars, rt, now, nCtl>>

ReNext == ReentrantCall \/ Call \/ Fire \/ Tick

ReSpec == ReInit /\ [][ReNext]_vars

(***************************************************************************)
(* One retry call, no governor.                                            *)
(***************************************************************************)
govVars == <<mode, wait, leading, trailing, maxWait, now, gov, nCalls, lastOp,
             wasIdle, nCtl, burst, firstCallAt, calledNow, timerFirst, pace, callLog>>

RetryInit ==
    /\ mode = "debounce"
    /\ leading = FALSE
    /\ trailing = TRUE
    /\ wait \in Waits
    /\ maxWait = Null
    /\ pace = 1
    /\ now = 0
    /\ gov = NewGov
    /\ nCalls = 0
    /\ lastOp = "init"
    /\ wasIdle = FALSE
    /\ nCtl = 0
    /\ burst = TRUE
    /\ firstCallAt = Null
    /\ calledNow = FALSE
    /\ timerFirst = TRUE
    /\ callLog = << >>
    /\ rt \in {retry(n, d, b, m) : n \in 0..MaxAttempts, d \in Delays,
                                   b \in Backoffs, m \in MaxDelays}

\* the promise of fn() resolves: retry returns its value
FnResolves ==
    /\ rt.pc = "fn"
    /\ rt' = [rt EXCEPT !.pc = "resolved", !.settled = rt.calls]
    /\ UNCHANGED govVars

\* the promise of fn() rejects: the catch block runs up to its throw or await
FnRejects ==
    /\ rt.pc = "fn"
    /\ \E again \in BOOLEAN : rt' = catch(rt, rt.calls, again)
    /\ UNCHANGED govVars

\* the promise of wait(currentDelay) resolves: attempt++ and the loop's test
WaitDone ==
    /\ rt.pc = "wait"
    /\ rt' = loopTest([rt EXCEPT !.attempt = @ + 1])
    /\ UNCHANGED govVars

RetryNext == FnResolves \/ FnRejects \/ WaitDone

RetrySpec == RetryInit /\ [][RetryNext]_vars

(***************************************************************************)
(* Construction with any numbers as wait and maxWait: debounce() and       *)
(* throttle() destructure the options, initialise the closure variables    *)
(* and return the wrapper; they examine neither wait nor maxWait.          *)
(***************************************************************************)
AnyWaits == {-1, 2}
AnyMaxWaits == {-2}

AnyInit ==
    /\ mode \in {"debounce", "throttle"}
    /\ leading \in BOOLEAN
    /\ trailing \in BOOLEAN
    /\ wait \in AnyWaits
    /\ maxWait \in IF mode = "debounce" THEN {Null} \cup AnyMaxWaits ELSE {Null}
    /\ pace = 1
    /\ now = 0
    /\ gov = NewGov
    /\ nCalls = 0
    /\ lastOp = "init"
    /\ wasIdle = FALSE
    /\ nCtl = 0
    /\ burst = TRUE
    /\ firstCallAt = Null
    /\ calledNow = FALSE
    /\ timerFirst = TRUE
    /\ callLog = << >>
    /\ rt = NoRetry

AnySpec == AnyInit /\ [][Next]_vars

(***************************************************************************)
(* Continuous pressure: from the first call on, exactly one wrapper call   *)
(* every `pace` clock values, before or after the callbacks due at that    *)
(* value; cancel() and flush() are not used.                               *)
(***************************************************************************)
SteadyInit ==
    /\ Start
    /\ wait \in SteadyWaits
    /\ maxWait \in IF mode = "debounce" THEN {Null} \cup SteadyMaxWaits ELSE {Null}
    /\ pace \in {1, wait \div 2}

CallDue == firstCallAt = Null \/ (now - firstCallAt) % pace = 0

SteadyCall ==
    /\ ~calledNow
    /\ CallDue
    /\ DoCall

SteadyTick ==
    /\ now < MaxSteadyTime
    /\ calledNow \/ ~CallDue
    /\ DoTick

SteadyNext == SteadyCall \/ Fire \/ SteadyTick

SteadySpec == SteadyInit /\ [][SteadyNext]_vars

TypeOK ==
    /\ now \in 0..MaxSteadyTime
    /\ gov.timeout \in {Null} \cup Nat
    /\ gov.lastArgs \in {Null} \cup (1..nCalls)
    /\ gov.lastInvokeTime \in 0..now
    /\ Len(gov.invocations) <= nCalls

invs == gov.invocations

DefaultDebounce == mode = "debounce" /\ ~leading /\ trailing /\ maxWait = Null

DefaultThrottle == mode = "throttle" /\ leading /\ trailing

(***************************************************************************)
(* C1: debounce with default options, calls each less than `wait` after    *)
(* the previous one, no cancel()/flush(): func runs exactly once, with the *)
(* arguments and receiver of the last call, exactly `wait` after the last  *)
(* call; it has not run before that time and has run once that time has    *)
(* passed.                                                                 *)
(***************************************************************************)
C1_Burst == DefaultDebounce /\ nCtl = 0 /\ burst /\ nCalls >= 1

C1_DebounceOncePerBurst ==
    C1_Burst =>
        LET due == gov.lastCallTime + wait
        IN  /\ Len(invs) <= 1
            /\ \A i \in DOMAIN invs :
                 /\ invs[i].t = due
                 /\ invs[i].args = nCalls
                 /\ invs[i].thisArg = Receiver(nCalls)
            /\ (now < due => Len(invs) = 0)
            /\ (now > due => Len(invs) = 1)

C1_Witness ==
    /\ C1_Burst
    /\ nCalls >= 3
    /\ gov.lastCallTime > firstCallAt
    /\ Len(invs) = 1
    /\ invs[1].t > firstCallAt + wait

(***************************************************************************)
(* C2: throttle, any leading/trailing, calls and timer expirations only:   *)
(* any two runs of func are at least `wait` apart.                         *)
(***************************************************************************)
C2_ThrottleSpacing ==
    (mode = "throttle" /\ nCtl = 0) =>
        \A i \in DOMAIN invs : \A j \in DOMAIN invs :
            i < j => invs[j].t - invs[i].t >= wait

(***************************************************************************)
(* C3 as stated: throttle with defaults, one call at every clock value     *)
(* (several per window) from the first call on: up to 3*wait after the first call func has run  *)
(* at first call + 0, wait, 2*wait, 3*wait and at no other time (4 runs    *)
(* once the callback due at 3*wait has run), each time with the arguments  *)
(* of the most recent call.                                                *)
(***************************************************************************)
C3_Steady ==
    /\ DefaultThrottle /\ pace = 1 /\ wait >= 2
    /\ firstCallAt # Null /\ now <= firstCallAt + 3 * wait

C3_Cadence ==
    LET k == (now - firstCallAt) \div wait
    IN  /\ \A i \in DOMAIN invs : invs[i].t = firstCallAt + (i - 1) * wait /\ invs[i].latest
        /\ Len(invs) \in {k, k + 1}
        /\ (~Due(gov, now) => Len(invs) = k + 1)

C4_Window ==
    /\ DefaultThrottle /\ nCtl = 0 /\ nCalls >= 1
    /\ gov.lastCallTime < firstCallAt + wait

C4_ThrottleLeadingThenTrailing ==
    C4_Window =>
        LET end == firstCallAt + wait
        IN  /\ Len(invs) >= 1
            /\ invs[1].t = firstCallAt /\ invs[1].args = 1 /\ invs[1].by = "call"
            /\ Len(invs) <= 2
            /\ \A i \in DOMAIN invs :
                 i >= 2 => invs[i].by = "timer" /\ invs[i].t = end /\ invs[i].args = nCalls
            /\ (nCalls = 1 => Len(invs) = 1)
            /\ (now < end => Len(invs) = 1)
            /\ (nCalls >= 2 /\ now > end => Len(invs) = 2)

C4_Witness ==
    /\ C4_Window
    /\ nCalls >= 3
    /\ Len(invs) = 2
    /\ invs[2].args = 3

(***************************************************************************)
(* C5: after a cancel() that dropped pending arguments, func never runs    *)
(* with arguments of a call made before that cancel(), and no timer        *)
(* callback scheduled before that cancel() runs func.                      *)
(***************************************************************************)
C5_CancelIsTotal ==
    \A i \in DOMAIN invs : ~invs[i].stale /\ ~invs[i].old

\* the runs of func made on the way from governor g to governor h
RunsAfter(g, h) ==
    [i \in 1..(Len(h.invocations) - Len(g.invocations)) |->
        LET e == h.invocations[Len(g.invocations) + i]
        IN  [t |-> e.t, args |-> e.args, thisArg |-> e.thisArg]]

ArgsOf(runs) == [i \in DOMAIN runs |-> <<runs[i].args, runs[i].thisArg>>]

\* what a caller can observe of governor g at `time`: pending(), the value of
\* flush(), the value of a next call, and the runs of func that call leads to
Observables(g, time) ==
    LET c == wrapperCall(g, time, Receiver(nCalls + 1), nCalls + 1)
    IN  [pending |-> pending(g),
         flush |-> wrapperFlush(g, time).ret,
         call |-> c.ret,
         runs |-> RunsAfter(g, Drain(c, time))]

C7_IdleCancelNoOp ==
    [][(lastOp' = "cancel" /\ Idle(gov)) => Fields(gov') = Fields(gov)]_vars

(***************************************************************************)
(* C7 amended: cancel() on an idle governor runs nothing and leaves        *)
(* timeout, maxTimeout, lastArgs, lastThis, the cached result and the      *)
(* host's callbacks unchanged, but it resets lastCallTime to null and      *)
(* lastInvokeTime to 0.                                                    *)
(***************************************************************************)
C7_IdleCancelResetsTimes ==
    [][(lastOp' = "cancel" /\ Idle(gov)) =>
          /\ <<gov'.timeout, gov'.maxTimeout, gov'.lastArgs, gov'.lastThis, gov'.result>>
               = <<gov.timeout, gov.maxTimeout, gov.lastArgs, gov.lastThis, gov.result>>
          /\ gov'.timers = gov.timers
          /\ gov'.invocations = gov.invocations
          /\ gov'.lastCallTime = Null
          /\ gov'.lastInvokeTime = 0]_vars

C7_Witness ==
    /\ lastOp = "cancel" /\ wasIdle /\ nCtl = 1
    /\ Len(invs) >= 1 /\ Last(invs).t > 0
    /\ gov.lastInvokeTime = 0 /\ gov.lastCallTime = Null

(***************************************************************************)
(* C8: with a timer scheduled, flush() followed by the host running every  *)
(* scheduled callback leads to the same runs of func (number, arguments    *)
(* and receivers) as the host running every scheduled callback without the *)
(* flush(), no further call being made.                                    *)
(***************************************************************************)
C8_FlushEqualsWaiting ==
    (gov.timeout # Null \/ gov.maxTimeout # Null) =>
        ArgsOf(RunsAfter(gov, Drain(wrapperFlush(gov, now), now)))
            = ArgsOf(RunsAfter(gov, Drain(gov, now)))

C8_Witness ==
    /\ lastOp = "flush" /\ ~wasIdle
    /\ Len(invs) >= 1 /\ Last(invs).by = "flush"
    /\ gov.timers # {}

(***************************************************************************)
(* C9: flush() with no timer scheduled returns the cached result, which is *)
(* the result of the last run of func (undefined if there was none), runs  *)
(* nothing and changes no closure variable and no host callback.           *)
(***************************************************************************)
C9_IdleFlushReturnsCached ==
    [][(lastOp' = "flush" /\ gov.timeout = Null) =>
          /\ Fields(gov') = Fields(gov)
          /\ gov'.timers = gov.timers
          /\ gov'.invocations = gov.invocations
          /\ gov'.ret = gov.result
          /\ gov.result = IF Len(invs) = 0 THEN Null
                          ELSE func(Last(invs).thisArg, Last(invs).args)]_vars

C9_Witness ==
    /\ lastOp = "flush" /\ wasIdle
    /\ Len(invs) >= 1
    /\ gov.ret = Last(invs).args

(***************************************************************************)
(* C10: debounce with maxWait and trailing=true, a call every wait/2 from  *)
(* the first call on: func runs within maxWait of the first call and then  *)
(* again within maxWait of each run.                                       *)
(***************************************************************************)
C10_Pressure ==
    /\ mode = "debounce" /\ maxWait # Null /\ trailing
    /\ pace * 2 = wait /\ firstCallAt # Null

C10_MaxWaitBoundsGap ==
    C10_Pressure =>
        /\ now - (IF Len(invs) = 0 THEN firstCallAt ELSE Last(invs).t) <= maxWait
        /\ \A i \in DOMAIN invs :
             invs[i].t - (IF i = 1 THEN firstCallAt ELSE invs[i - 1].t) <= maxWait


(***************************************************************************)
(* C11: debounce with leading=true, trailing=false and no maxWait, calls   *)
(* and timer expirations only: the call that opens a burst runs func at    *)
(* once with its own arguments and receiver; every other call and every    *)
(* timer expiration runs nothing, so that each burst has one run.          *)
(***************************************************************************)
C11_LeadingOnly ==
    mode = "debounce" /\ leading /\ ~trailing /\ maxWait = Null /\ nCtl = 0

C11_LeadingOncePerBurst ==
    [][C11_LeadingOnly =>
          IF lastOp' = "call" /\ Last(callLog').opens
          THEN /\ Len(invs') = Len(invs) + 1
               /\ Last(invs').t = now
               /\ Last(invs').args = nCalls'
               /\ Last(invs').thisArg = Receiver(nCalls')
               /\ Last(invs').by = "call"
          ELSE invs' = invs]_vars


\* the last call of the burst opened by call k
BurstEnd(log, k) ==
    CHOOSE j \in k..Len(log) :
        /\ \A i \in (k + 1)..j : ~log[i].opens
        /\ (j = Len(log) \/ log[j + 1].opens)

\* the runs of func with the arguments of calls lo..hi
RunsOf(lo, hi) == SelectSeq(invs, LAMBDA e : e.args \in lo..hi)

(***************************************************************************)
(* C12: debounce with leading=true, trailing=true and no maxWait, calls    *)
(* and timer expirations only: a burst of more than one call has exactly   *)
(* two runs of func: one made at once by the first call of the burst with  *)
(* that call's arguments, and one made by the timer `wait` after the last  *)
(* call of the burst with the last call's arguments.                       *)
(***************************************************************************)
C12_Both ==
    mode = "debounce" /\ leading /\ trailing /\ maxWait = Null /\ nCtl = 0

C12_LeadingAndTrailing ==
    C12_Both =>
        \A k \in DOMAIN callLog :
            LET j == BurstEnd(callLog, k)
                r == RunsOf(k, j)
            IN  (callLog[k].opens /\ j > k) =>
                    /\ Len(r) \in {1, 2}
                    /\ r[1].t = callLog[k].t /\ r[1].args = k /\ r[1].by = "call"
                    /\ (Len(r) = 2 =>
                          /\ r[2].t = callLog[j].t + wait
                          /\ r[2].args = j
                          /\ r[2].by = "timer")
                    /\ (now > callLog[j].t + wait => Len(r) = 2)


(***************************************************************************)
(* C13: a governor with leading=true (debounce or throttle, trailing true  *)
(* or false), calls and timer expirations only: a burst of exactly one     *)
(* call has exactly one run of func; it never has two, and it has one      *)
(* once more than `wait` has passed since the call.                        *)
(***************************************************************************)
C13_SingleCallBurst(k) ==
    /\ leading /\ nCtl = 0
    /\ k \in DOMAIN callLog
    /\ callLog[k].opens
    /\ BurstEnd(callLog, k) = k

C13_OneCallOneRun ==
    \A k \in 1..nCalls :
        C13_SingleCallBurst(k) =>
            /\ Len(RunsOf(k, k)) <= 1
            /\ (now > callLog[k].t + wait => Len(RunsOf(k, k)) = 1)


(***************************************************************************)
(* C14: a governor built with leading=false and trailing=false (debounce   *)
(* with or without maxWait, or throttle) never runs func, whatever wrapper *)
(* calls, timer expirations and flush() calls are made.                    *)
(***************************************************************************)
C14_NoEdgeNoRun ==
    (~leading /\ ~trailing) => Len(invs) = 0


(***************************************************************************)
(* C15: for debounce, in every reachable state pending() is true exactly   *)
(* when the host has a timerExpired callback of the wrapper scheduled.     *)
(***************************************************************************)
C15_PendingIffTimerScheduled ==
    mode = "debounce" =>
        (pending(gov) <=> \E tm \in gov.timers : tm.kind = "timer")


\* the bookkeeping of governor g: every closure variable but the cached
\* result, and the host's callbacks
Bookkeeping(g) == <<g.timeout, g.maxTimeout, g.lastArgs, g.lastThis,
                    g.lastCallTime, g.lastInvokeTime, g.timers>>

\* governor g after entry point op (a value of lastOp) has run at `time`
After(g, op, time) ==
    IF op = "call" THEN wrapperCall(g, time, Receiver(nCalls + 1), nCalls + 1)
    ELSE IF op = "flush" THEN wrapperFlush(g, time)
    ELSE IF op = "cancel" THEN wrapperCancel(g, nCalls)
    ELSE runTimer(g, CHOOSE tm \in g.timers : IsNext(g, tm), time)

\* the arguments and receivers of the runs that one more call at `time`
\* and the host's callbacks lead to
NextBurst(g, time) ==
    ArgsOf(RunsAfter(g, Drain(wrapperCall(g, time, Receiver(nCalls + 2), nCalls + 2), time)))

(***************************************************************************)
(* C16: when func throws in a run (made by a call, by a timer callback or  *)
(* by flush()), the governor is left as after a run that returned:         *)
(* lastInvokeTime is the time of the run, lastArgs and lastThis are null,  *)
(* every other closure variable but the cached result and every host       *)
(* callback is as if func had returned, a pending governor has its timer   *)
(* scheduled, and a following call leads to the same runs as if func had   *)
(* returned.  The caller gets the exception and the cached result stays.   *)
(***************************************************************************)
C16_ThrowKeepsBookkeeping ==
    [][(Len(invs') = Len(invs) + 1 /\ Last(invs').threw) =>
          LET ok == After([gov EXCEPT !.throwOn = Null], lastOp', now)
          IN  /\ gov'.lastInvokeTime = now
              /\ gov'.lastArgs = Null
              /\ gov'.lastThis = Null
              /\ Bookkeeping(gov') = Bookkeeping(ok)
              /\ Len(ok.invocations) = Len(invs')
              /\ (pending(gov') => \E tm \in gov'.timers : tm.id = gov'.timeout)
              /\ NextBurst(gov', now') = NextBurst(ok, now')
              /\ gov'.ret = Thrown
              /\ gov'.result = gov.result]_vars

C16_Witness ==
    /\ Len(invs) >= 2
    /\ invs[1].threw /\ invs[1].by = "timer"
    /\ ~invs[2].threw /\ invs[2].t >= invs[1].t + wait
    /\ gov.lastArgs = Null /\ ~pending(gov)


(***************************************************************************)
(* C17: construction with a negative wait or a negative maxWait fails: no  *)
(* wrapper is returned, so no wrapper call is ever made, no callback is    *)
(* ever scheduled and func never runs under such a configuration.          *)
(***************************************************************************)
C17_Invalid == wait < 0 \/ (maxWait # Null /\ maxWait < 0)

C17_InvalidConfigRejected ==
    C17_Invalid => (nCalls = 0 /\ gov.timers = {} /\ Len(invs) = 0)


(***************************************************************************)
(* C18: a wrapper call that runs func returns the result of that run, made *)
(* with the call's own arguments and receiver; a wrapper call that does    *)
(* not run func returns the result of the most recent run of func, and     *)
(* undefined when func has not run yet.                                    *)
(***************************************************************************)
C18_CallReturnsFreshOrCached ==
    [][lastOp' = "call" =>
          IF Len(invs') > Len(invs)
          THEN /\ Len(invs') = Len(invs) + 1
               /\ Last(invs').args = nCalls'
               /\ Last(invs').thisArg = Receiver(nCalls')
               /\ gov'.ret = func(Receiver(nCalls'), nCalls')
          ELSE gov'.ret = IF Len(invs) = 0 THEN Null
                          ELSE func(Last(invs).thisArg, Last(invs).args)]_vars

C18_Witness ==
    /\ lastOp = "call" /\ nCalls = 3
    /\ Len(invs) = 2
    /\ invs[1].by = "call" /\ invs[2].by = "timer" /\ invs[2].args = 2
    /\ gov.ret = func(invs[2].thisArg, invs[2].args)


(***************************************************************************)
(* C19: retry(fn, {attempts: n}) with n >= 1 calls fn at most n times,     *)
(* with one wait between two consecutive calls; when every call of fn      *)
(* rejects and shouldRetry never returns false, the promise rejects after  *)
(* exactly n calls of fn and n-1 waits, with the error of the last call.   *)
(***************************************************************************)
C19_Retrying == rt.pc # "none" /\ rt.attempts >= 1

C20_BackoffWaits ==
    LET uncapped[k \in 1..(MaxAttempts + 1)] ==
            IF k = 1 THEN rt.delay ELSE uncapped[k - 1] * rt.backoff
    IN  \A k \in DOMAIN rt.waits :
            /\ rt.waits[k] = Min(uncapped[k], rt.maxDelay)
            /\ rt.waits[k] <= rt.maxDelay
            /\ (rt.backoff = 2 /\ k > 1 /\ rt.maxDelay = Infinity =>
                  rt.waits[k] = 2 * rt.waits[k - 1])

C20_Witness ==
    /\ rt.backoff = 2 /\ rt.delay = 3 /\ rt.maxDelay = 4
    /\ rt.waits = <<3, 4, 4>>


(***************************************************************************)
(* C21: in retry, shouldRetry is called after every failed call of fn but  *)
(* the last allowed one, with that call's error and its 1-based number;    *)
(* when it returns false the promise rejects with that error, no wait      *)
(* follows and fn is not called again.                                     *)
(***************************************************************************)
C21_ShouldRetryConsulted ==
    C19_Retrying =>
        /\ \A i \in DOMAIN rt.asked : rt.asked[i] = [error |-> i, attempt |-> i]
        /\ Len(rt.asked) = IF rt.pc = "wait" \/ rt.refused THEN rt.calls ELSE rt.calls - 1
        /\ Len(rt.asked) <= rt.attempts - 1
        /\ (rt.refused =>
              /\ rt.pc = "rejected"
              /\ rt.settled = Last(rt.asked).error
              /\ Len(rt.asked) = rt.calls
              /\ Len(rt.waits) = rt.calls - 1)

C21_Witness ==
    /\ C19_Retrying /\ rt.attempts = 4
    /\ rt.refused /\ rt.pc = "rejected"
    /\ rt.calls = 2 /\ rt.settled = 2
    /\ Len(rt.asked) = 2 /\ Len(rt.waits) = 1


\* the timerExpired callbacks of the wrapper that the host has scheduled
PrimaryTimers(g) == {tm \in g.timers : tm.kind = "timer"}

(***************************************************************************)
(* C22: in every reachable state the host has at most one timerExpired     *)
(* callback of the wrapper scheduled.                                      *)
(***************************************************************************)
C22_OnePrimaryTimer == Cardinality(PrimaryTimers(gov)) <= 1


(***************************************************************************)
(* C23: debounce with leading=false, with or without maxWait: func is      *)
(* never run from inside a wrapper call; every run is made by a timer      *)
(* callback or by flush().                                                 *)
(***************************************************************************)
C23_NoRunInsideCall ==
    (mode = "debounce" /\ ~leading) =>
        \A i \in DOMAIN invs : invs[i].by \in {"timer", "max", "flush"}


\* the handles of the callbacks the host has scheduled
Handles(g) == {tm.id : tm \in g.timers}

(***************************************************************************)
(* C24: debounce: right after any step in which func ran (leading edge,    *)
(* trailing edge or maxWait path), no callback that was scheduled before   *)
(* that step is still scheduled.                                           *)
(***************************************************************************)
C24_RunClearsTimers ==
    [][(mode = "debounce" /\ Len(invs') > Len(invs)) =>
          Handles(gov') \cap Handles(gov) = {}]_vars


(***************************************************************************)
(* C25 as stated: lastInvokeTime never decreases, whatever wrapper calls,  *)
(* timer expirations, flush() and cancel() are made.                       *)
(***************************************************************************)
C25_InvokeTimeMonotonic ==
    [][gov'.lastInvokeTime >= gov.lastInvokeTime]_vars

(***************************************************************************)
(* C25 amended: lastInvokeTime never decreases over wrapper calls, timer   *)
(* expirations and flush(); cancel() sets it back to 0, after which it     *)
(* again only grows.                                                       *)
(***************************************************************************)
C25_InvokeTimeMonotonicButCancel ==
    [][IF lastOp' = "cancel"
       THEN gov'.lastInvokeTime = 0
       ELSE gov'.lastInvokeTime >= gov.lastInvokeTime]_vars

C25_Witness ==
    /\ nCtl >= 1 /\ lastOp = "timer"
    /\ Len(invs) >= 2
    /\ invs[1].t > 0 /\ Last(invs).t = now /\ Last(invs).by = "timer"
    /\ gov.lastInvokeTime = now
    /\ gov.mark >= invs[1].args


\* the call about to be made at `time` takes the leading edge
TakesLeadingEdge(g, time) ==
    /\ g.timeout = Null
    /\ IF mode = "debounce" THEN shouldInvoke(g, time) ELSE shouldInvokeT(g, time)

(***************************************************************************)
(* C26 as stated: lastInvokeTime is 0 after construction and after         *)
(* cancel(), becomes the current time in every step in which func runs,    *)
(* and changes in no other step: it is never a time at which func did not  *)
(* run.                                                                    *)
(***************************************************************************)
C26_InvokeTimeIsLastRun ==
    [][gov'.lastInvokeTime =
          IF lastOp' = "cancel" THEN 0
          ELSE IF Len(invs') > Len(invs) THEN now
          ELSE gov.lastInvokeTime]_vars

(***************************************************************************)
(* C26 amended: lastInvokeTime is 0 after construction and after cancel(), *)
(* becomes the current time in every step in which func runs and also in   *)
(* every call that takes the leading edge (no timer scheduled and          *)
(* shouldInvoke true), whether or not leading is set and func runs, and    *)
(* changes in no other step.                                               *)
(***************************************************************************)
C26_InvokeTimeIsLastRunOrLeadingEdge ==
    [][gov'.lastInvokeTime =
          IF lastOp' = "cancel" THEN 0
          ELSE IF Len(invs') > Len(invs) THEN now
          ELSE IF lastOp' = "call" /\ TakesLeadingEdge(gov, now) THEN now
          ELSE gov.lastInvokeTime]_vars

C26_Witness ==
    /\ ~leading /\ lastOp = "call"
    /\ now > 0 /\ gov.lastInvokeTime = now
    /\ Len(invs) >= 1 /\ Last(invs).t < now


(***************************************************************************)
(* C27: debounce without maxWait: whenever a timer callback runs func, at  *)
(* least `wait` has passed since the most recent wrapper call, so func is  *)
(* not run by a timer while calls keep arriving less than `wait` apart.    *)
(***************************************************************************)
C27_TimerRunsAfterQuietPeriod ==
    [][(mode = "debounce" /\ maxWait = Null /\ lastOp' = "timer"
          /\ Len(invs') > Len(invs)) =>
          /\ callLog # << >>
          /\ now - Last(callLog).t >= wait
          /\ Last(invs').args = nCalls]_vars

C27_Witness ==
    /\ mode = "debounce" /\ maxWait = Null /\ leading /\ trailing
    /\ lastOp = "timer" /\ nCalls = 3
    /\ callLog[1].t < callLog[2].t /\ callLog[2].t < callLog[3].t
    /\ ~callLog[2].opens /\ ~callLog[3].opens
    /\ Len(invs) = 2 /\ invs[2].by = "timer"
    /\ invs[2].t = callLog[3].t + wait


(***************************************************************************)
(* C28: when func, run by the leading edge of a wrapper call, calls the    *)
(* wrapper again, the nested call runs nothing, for every configuration:   *)
(* the whole call runs func exactly once, the nested call's arguments are  *)
(* left pending with the timer of the outer call scheduled, and            *)
(* lastInvokeTime and lastCallTime are the current time.                   *)
(***************************************************************************)
C28_ReentrantCallRunsNothing ==
    [][(lastOp' = "reentrant" /\ leading /\ TakesLeadingEdge(gov, now)) =>
          /\ Len(invs') = Len(invs) + 1
          /\ nCalls' = nCalls + 2
          /\ gov'.lastArgs = nCalls + 2
          /\ gov'.timeout = gov.nextId
          /\ gov'.lastInvokeTime = now
          /\ gov'.lastCallTime = now]_vars


(***************************************************************************)
(* C29: in throttle mode without flush() and cancel(), every expiry of the *)
(* timer finds shouldInvoke true: timerExpired never schedules a timer     *)
(* again, it ends in trailingEdge with the timer handle null.              *)
(***************************************************************************)
C29_ThrottleExpiryInvokes ==
    [][(mode = "throttle" /\ nCtl' = 0 /\ lastOp' = "timer") =>
          /\ shouldInvokeT(gov, now)
          /\ gov'.timeout = Null
          /\ gov'.nextId = gov.nextId
          /\ gov'.timers \subseteq gov.timers
          /\ Cardinality(gov'.timers) = Cardinality(gov.timers) - 1]_vars

\* a throttle timer has expired and run the trailing edge, after a call
\* made while it was pending
C29_Witness ==
    /\ mode = "throttle" /\ nCtl = 0 /\ lastOp = "timer"
    /\ gov.timeout = Null /\ gov.timers = {}
    /\ Len(invs) >= 2 /\ Last(invs).by = "timer"
    /\ \E k \in DOMAIN callLog : ~callLog[k].opens


(***************************************************************************)
(* The governor without cancel(), under the host's scheduling: the event   *)
(* loop runs every callback that is due and time passes.  Wrapper calls    *)
(* are made up to MaxTime and may stop at any moment; the clock runs on    *)
(* while a callback is scheduled.                                          *)
(***************************************************************************)
LiveCall ==
    /\ now <= MaxTime
    /\ Call

LiveTick ==
    /\ now < MaxTime \/ gov.timers # {}
    /\ DoTick

LiveNext == LiveCall \/ Flush \/ Fire \/ LiveTick

LiveSpec == Init /\ [][LiveNext]_vars /\ WF_vars(Fire) /\ WF_vars(LiveTick)

\* func has run with the arguments and the receiver of call k
RanWith(k) ==
    \E i \in DOMAIN invs : invs[i].args = k /\ invs[i].thisArg = Receiver(k)

(***************************************************************************)
(* C30: with trailing = true, once the wrapper calls have stopped and      *)
(* cancel() is never called, func is eventually invoked with the arguments *)
(* and receiver of the final call and the governor ends idle: no callback  *)
(* scheduled, no pending arguments, pending() false.                       *)
(***************************************************************************)
C30_FinalCallRunsThenIdle ==
    \A k \in 1..MaxCalls :
        <>[](nCalls = k) =>
            <>[](trailing => /\ RanWith(k)
                             /\ gov.timers = {}
                             /\ gov.lastArgs = Null /\ gov.lastThis = Null
                             /\ ~pending(gov))

\* the final call of a burst was run by the timer and the governor is idle
C30_Witness ==
    /\ trailing /\ nCalls = MaxCalls /\ nCtl = 0
    /\ RanWith(nCalls) /\ Last(invs).args = nCalls /\ Last(invs).by = "timer"
    /\ ~callLog[nCalls].opens
    /\ gov.timers = {} /\ gov.lastArgs = Null /\ ~pending(gov)

====
